---- MODULE Spec2Model ----
(***************************************************************************)
(* Model of rgit's submodule health engine (src/src/submodule.rs) and of   *)
(* the recursive walkers that use it (src/src/commands/submodule.rs).      *)
(*                                                                         *)
(* The working tree is a function from submodule paths (sequences of       *)
(* names, the root's direct submodules having length 1) to the state git   *)
(* and the file system hold for that submodule.  Relative paths are        *)
(* resolved against the process working directory, taken to be the root    *)
(* repository's working directory.                                         *)
(***************************************************************************)
EXTENDS Integers, Sequences, FiniteSets, TLC

VARIABLES
    tree,          \* path -> node state (file system + git state)
    manifest,      \* url -> (name -> declared url): .gitmodules of a clone of url
    config,        \* Config: submodules.health_check, submodules.auto_stash, ui.interactive, stdin tty
    gpc,           \* position inside interactive_health_check
    health,        \* report of the first check_health of the gate
    new_health,    \* report of the re-check after auto-fix
    result,        \* value returned by interactive_health_check
    output,        \* what has been displayed, in order
    fixlog,        \* outcome of every fix_issue call of the auto-fix pass
    fix_pos,       \* position of auto_fix_issues in the report: [i |-> node, j |-> issue]
    scans,         \* number of check_health calls made by the gate
    tree_at_scan,  \* the tree as it was when `health` was built
    wpc,           \* position of a tree walk
    wop,           \* the walk being run: [op, recursive, init]
    stack,         \* call stack of the walk, innermost frame last
    visited,       \* nodes the walk has acted on, in order
    wresult,       \* value returned by the walk
    selected,      \* the options chosen at the prompt, in order
    cmd,           \* the command that called the gate: [name, force]
    cmd_result     \* how the command went on after the gate

vars == <<tree, manifest, config, gpc, health, new_health, result, output, fixlog,
          fix_pos, scans, tree_at_scan, wpc, wop, stack, visited, wresult, selected, cmd,
          cmd_result>>

gateVars == <<gpc, health, new_health, result, output, fixlog, fix_pos, scans, tree_at_scan,
              selected>>
walkVars == <<wpc, wop, stack, visited, wresult>>

-----------------------------------------------------------------------------
(* Bounds of the model *)

\* ahead/behind counts range over 0..MaxCount
MaxCount == 1

\* deepest submodule path the file system of the model can hold
MaxPath == 5

\* submodule names a manifest can declare, in the order repo.submodules() lists them
NameOrder == <<"a", "b">>
Names == {NameOrder[i] : i \in 1..Len(NameOrder)}

-----------------------------------------------------------------------------
(* URLs are sequences of characters *)

None == [some |-> FALSE, s |-> <<>>]
Some(s) == [some |-> TRUE, s |-> s]

UrlP == <<"h","t","t","p","s",":","/","/","p">>
UrlQ == <<"h","t","t","p","s",":","/","/","q">>
UrlBad == <<".",".","/","p">>

starts_with(s, pre) == Len(s) >= Len(pre) /\ SubSeq(s, 1, Len(pre)) = pre
contains(s, c) == \E i \in 1..Len(s) : s[i] = c

is_valid_url(url) ==
    \/ starts_with(url, <<"h","t","t","p",":","/","/">>)
    \/ starts_with(url, <<"h","t","t","p","s",":","/","/">>)
    \/ starts_with(url, <<"g","i","t",":","/","/">>)
    \/ starts_with(url, <<"s","s","h",":","/","/">>)
    \/ (contains(url, "@") /\ contains(url, ":"))

-----------------------------------------------------------------------------
(* Node state *)

\* git2::RepositoryState
RepositoryState == {"Clean", "Merge", "Revert", "RevertSequence", "CherryPick",
                    "CherryPickSequence", "Bisect", "Rebase", "RebaseInteractive",
                    "RebaseMerge", "ApplyMailbox", "ApplyMailboxOrRebase"}

\* dir: "absent"     the path does not exist
\*      "empty"      an empty directory
\*      "nonempty"   a directory with entries that is not a repository
\*      "unreadable" a directory whose entries cannot be listed
\*      "file"       the path exists and is not a directory
\*      "repo"       a repository: Submodule::open succeeds
\*      "corrupt"    a repository whose status cannot be read
\* named: the submodule's name is valid UTF-8, so that Submodule::name() is Some
BaseNode == [dir |-> "absent", url |-> None, registered |-> FALSE, changes |-> "none",
             head |-> "branch", upstream |-> FALSE, ahead |-> 0, behind |-> 0,
             state |-> "Clean", stashes |-> 0, named |-> TRUE]

\* submodule.name().unwrap_or("unknown") for the submodule at path p
name_or_unknown(t, p) == IF t[p].named THEN p[Len(p)] ELSE "unknown"

opens(node) == node.dir \in {"repo", "corrupt"}

\* the existence test left out: no path is ever seen as existing
path_exists_never(t, p) == FALSE

path_exists(t, p) == p \in DOMAIN t /\ t[p].dir # "absent"

\* the names repo.submodules() yields for the repository at path p
RECURSIVE submodules_from(_, _, _)
submodules_from(t, p, names) ==
    IF names = <<>> THEN <<>>
    ELSE IF Append(p, Head(names)) \in DOMAIN t
         THEN <<Head(names)>> \o submodules_from(t, p, Tail(names))
         ELSE submodules_from(t, p, Tail(names))

submodules(t, p) == submodules_from(t, p, NameOrder)

-----------------------------------------------------------------------------
(* SubmoduleIssue *)

Issue(kind) == [kind |-> kind, n |-> 0, url |-> <<>>]
IssueN(kind, n) == [kind |-> kind, n |-> n, url |-> <<>>]
InvalidUrl(url) == [kind |-> "InvalidUrl", n |-> 0, url |-> url]

IssueKinds == {"NotInitialized", "UncommittedChanges", "DetachedHead", "AheadOfRemote",
               "BehindRemote", "MergeConflicts", "EmptyDirectory", "DirectoryNotEmpty",
               "InvalidUrl", "MissingRemote", "NetworkError"}

\* the arms of AheadOfRemote and BehindRemote exchanged
severity_swapped(issue) ==
    CASE issue.kind = "NotInitialized" -> "Warning"
      [] issue.kind = "UncommittedChanges" -> "Warning"
      [] issue.kind = "DetachedHead" -> "Info"
      [] issue.kind = "AheadOfRemote" -> "Warning"
      [] issue.kind = "BehindRemote" -> "Info"
      [] issue.kind = "MergeConflicts" -> "Error"
      [] issue.kind = "EmptyDirectory" -> "Warning"
      [] issue.kind = "DirectoryNotEmpty" -> "Error"
      [] issue.kind = "InvalidUrl" -> "Error"
      [] issue.kind = "MissingRemote" -> "Warning"
      [] issue.kind = "NetworkError" -> "Warning"

severity(issue) ==
    CASE issue.kind = "NotInitialized" -> "Warning"
      [] issue.kind = "UncommittedChanges" -> "Warning"
      [] issue.kind = "DetachedHead" -> "Info"
      [] issue.kind = "AheadOfRemote" -> "Info"
      [] issue.kind = "BehindRemote" -> "Warning"
      [] issue.kind = "MergeConflicts" -> "Error"
      [] issue.kind = "EmptyDirectory" -> "Warning"
      [] issue.kind = "DirectoryNotEmpty" -> "Error"
      [] issue.kind = "InvalidUrl" -> "Error"
      [] issue.kind = "MissingRemote" -> "Warning"
      [] issue.kind = "NetworkError" -> "Warning"

-----------------------------------------------------------------------------
(* Classifier *)

Ok(v) == [ok |-> TRUE, v |-> v]
Err == [ok |-> FALSE, v |-> <<>>]

has_uncommitted_changes(node) ==
    IF node.dir = "corrupt" THEN Err ELSE Ok(node.changes # "none")

is_detached_head(node) ==
    IF node.head = "unborn" THEN Ok(TRUE) ELSE Ok(node.head # "branch")

get_ahead_behind_count(node) ==
    IF node.head = "unborn" THEN Err
    ELSE IF node.head = "branch" /\ node.upstream
         THEN Ok(<<node.ahead, node.behind>>)
         ELSE Ok(<<0, 0>>)

has_merge_conflicts(node) ==
    Ok(node.state \in {"Merge", "Revert", "CherryPick", "Bisect", "Rebase",
                       "RebaseInteractive", "RebaseMerge"})

\* the entries not counted: every directory is taken as empty
is_directory_empty_exists(node) ==
    IF node.dir \notin {"empty", "nonempty", "unreadable", "repo", "corrupt"} THEN Ok(FALSE)
    ELSE Ok(TRUE)

is_directory_empty(node) ==
    IF node.dir \notin {"empty", "nonempty", "unreadable", "repo", "corrupt"} THEN Ok(FALSE)
    ELSE IF node.dir = "unreadable" THEN Err
    ELSE Ok(node.dir = "empty")

\* `else if` for the second test: behind is reported only when not ahead
check_submodule_repo_exclusive(node) ==
    LET uc == has_uncommitted_changes(node)
        dh == is_detached_head(node)
        ab == get_ahead_behind_count(node)
        mc == has_merge_conflicts(node)
        i1 == IF uc.ok /\ uc.v THEN <<Issue("UncommittedChanges")>> ELSE <<>>
        i2 == IF dh.ok /\ dh.v THEN <<Issue("DetachedHead")>> ELSE <<>>
        i3 == IF ab.ok /\ ab.v[1] > 0 THEN <<IssueN("AheadOfRemote", ab.v[1])>> ELSE <<>>
        i4 == IF ab.ok /\ ab.v[1] = 0 /\ ab.v[2] > 0
              THEN <<IssueN("BehindRemote", ab.v[2])>> ELSE <<>>
        i5 == IF mc.ok /\ mc.v THEN <<Issue("MergeConflicts")>> ELSE <<>>
    IN  IF ~uc.ok \/ ~dh.ok \/ ~mc.ok THEN Err
        ELSE Ok(i1 \o i2 \o i3 \o i4 \o i5)

check_submodule_repo(node) ==
    LET uc == has_uncommitted_changes(node)
        dh == is_detached_head(node)
        ab == get_ahead_behind_count(node)
        mc == has_merge_conflicts(node)
        i1 == IF uc.ok /\ uc.v THEN <<Issue("UncommittedChanges")>> ELSE <<>>
        i2 == IF dh.ok /\ dh.v THEN <<Issue("DetachedHead")>> ELSE <<>>
        i3 == IF ab.ok /\ ab.v[1] > 0 THEN <<IssueN("AheadOfRemote", ab.v[1])>> ELSE <<>>
        i4 == IF ab.ok /\ ab.v[2] > 0 THEN <<IssueN("BehindRemote", ab.v[2])>> ELSE <<>>
        i5 == IF mc.ok /\ mc.v THEN <<Issue("MergeConflicts")>> ELSE <<>>
    IN  IF ~uc.ok \/ ~dh.ok \/ ~mc.ok THEN Err
        ELSE Ok(i1 \o i2 \o i3 \o i4 \o i5)

\* the initialized flag set from the path existing, not from open()
check_submodule_status_flag(t, p) ==
    LET node == t[p]
        name == name_or_unknown(t, p)
        repo == IF opens(node) THEN check_submodule_repo(node) ELSE Ok(<<Issue("NotInitialized")>>)
        initialized == opens(node)
        probe == IF path_exists(t, p) /\ ~initialized THEN is_directory_empty(node) ELSE Ok(FALSE)
        dirIssue == IF path_exists(t, p) /\ ~initialized
                    THEN IF probe.ok /\ probe.v THEN <<Issue("EmptyDirectory")>>
                         ELSE <<Issue("DirectoryNotEmpty")>>
                    ELSE <<>>
        urlIssue == IF node.url.some /\ ~is_valid_url(node.url.s)
                    THEN <<InvalidUrl(node.url.s)>> ELSE <<>>
    IN  IF ~repo.ok \/ ~probe.ok THEN Err
        ELSE Ok([name |-> name, path |-> p, url |-> node.url,
                 initialized |-> path_exists(t, p), issues |-> repo.v \o dirIssue \o urlIssue])

check_submodule_status(t, p) ==
    LET node == t[p]
        name == name_or_unknown(t, p)
        repo == IF opens(node) THEN check_submodule_repo(node) ELSE Ok(<<Issue("NotInitialized")>>)
        initialized == opens(node)
        probe == IF path_exists(t, p) /\ ~initialized THEN is_directory_empty(node) ELSE Ok(FALSE)
        dirIssue == IF path_exists(t, p) /\ ~initialized
                    THEN IF probe.ok /\ probe.v THEN <<Issue("EmptyDirectory")>>
                         ELSE <<Issue("DirectoryNotEmpty")>>
                    ELSE <<>>
        urlIssue == IF node.url.some /\ ~is_valid_url(node.url.s)
                    THEN <<InvalidUrl(node.url.s)>> ELSE <<>>
    IN  IF ~repo.ok \/ ~probe.ok THEN Err
        ELSE Ok([name |-> name, path |-> p, url |-> node.url, initialized |-> initialized,
                 issues |-> repo.v \o dirIssue \o urlIssue])

-----------------------------------------------------------------------------
(* SubmoduleHealth *)

EmptyMap == [k \in {} |-> 0]

add_submodule(m, name, status) ==
    [k \in DOMAIN m \cup {name} |-> IF k = name THEN status ELSE m[k]]

\* `any` written for `all`: one clean status makes the report healthy
is_healthy_any(h) ==
    \/ DOMAIN h.submodules = {}
    \/ \E k \in DOMAIN h.submodules : h.submodules[k].issues = <<>>

\* a report without statuses taken as not healthy
is_healthy_nonempty(h) ==
    /\ DOMAIN h.submodules # {}
    /\ \A k \in DOMAIN h.submodules : h.submodules[k].issues = <<>>

is_healthy(h) == \A k \in DOMAIN h.submodules : h.submodules[k].issues = <<>>

RECURSIVE SumOver(_, _)
SumOver(m, keys) ==
    IF keys = {} THEN 0
    ELSE LET k == CHOOSE x \in keys : TRUE
         IN  Len(m[k].issues) + SumOver(m, keys \ {k})

\* the statuses that have issues counted, not their issues
total_issues_statuses(h) ==
    Cardinality({k \in DOMAIN h.submodules : h.submodules[k].issues # <<>>})

total_issues(h) == SumOver(h.submodules, DOMAIN h.submodules)

unhealthy_submodules(h) == {k \in DOMAIN h.submodules : h.submodules[k].issues # <<>>}

RECURSIVE check_health_from(_, _, _, _)
check_health_from(t, p, names, acc) ==
    IF names = <<>> THEN Ok(acc)
    ELSE LET st == check_submodule_status(t, Append(p, Head(names)))
         IN  IF ~st.ok THEN Err
             ELSE check_health_from(t, p, Tail(names),
                                    add_submodule(acc, name_or_unknown(t, Append(p, Head(names))),
                                                  st.v))

\* an incremental re-check: once a fix pass has run, only the submodules it
\* fixed something in are examined again
check_health_incremental(t, p) ==
    LET touched(n) == \E i \in 1..Len(fixlog) : fixlog[i].name = n /\ fixlog[i].ok
    IN  check_health_from(t, p,
                          IF fixlog = <<>> THEN submodules(t, p)
                          ELSE SelectSeq(submodules(t, p), touched),
                          EmptyMap)

\* the map check_health builds for the repository at path p
check_health(t, p) == check_health_from(t, p, submodules(t, p), EmptyMap)

\* iteration orders of a HashMap with the given keys
RECURSIVE Orders(_)
Orders(keys) ==
    IF keys = {} THEN {<<>>}
    ELSE UNION {{<<k>> \o o : o \in Orders(keys \ {k})} : k \in keys}

NoHealth == [ok |-> FALSE, submodules |-> EmptyMap, order |-> <<>>]
Report(m, order) == [ok |-> TRUE, submodules |-> m, order |-> order]

-----------------------------------------------------------------------------
(* Auto-fix dispatcher.  A fix returns whether it succeeded, the tree it    *)
(* leaves behind, and the remediation actions it performed.                 *)

Fixed(t, ops) == [ok |-> TRUE, tree |-> t, ops |-> ops, err |-> "none"]
Failed(t, ops, err) == [ok |-> FALSE, tree |-> t, ops |-> ops, err |-> err]

find_submodule(t, name) == <<name>> \in DOMAIN t

\* Submodule::init(false) copies the submodule's url into .git/config; it clones nothing
init_submodule(t, name) ==
    IF ~find_submodule(t, name) THEN Failed(t, <<>>, "SubmoduleNotFound")
    ELSE IF ~t[<<name>>].url.some THEN Failed(t, <<>>, "InitFailed")
    ELSE Fixed([t EXCEPT ![<<name>>].registered = TRUE], <<"init">>)

\* stash_ok: whether signature() and stash_save succeed in the submodule
stash_submodule_changes(t, name, stash_ok) ==
    IF ~find_submodule(t, name) THEN Failed(t, <<>>, "SubmoduleNotFound")
    ELSE IF ~opens(t[<<name>>]) THEN Failed(t, <<>>, "OpenFailed")
    ELSE IF ~stash_ok \/ t[<<name>>].changes # "tracked" THEN Failed(t, <<>>, "StashFailed")
    ELSE Fixed([t EXCEPT ![<<name>>].changes = "none",
                         ![<<name>>].stashes = @ + 1], <<"stash">>)

\* the emptiness test left out: whatever is at the path is removed
remove_directory_any(t, name) ==
    IF ~find_submodule(t, name) THEN Failed(t, <<>>, "SubmoduleNotFound")
    ELSE IF ~path_exists(t, <<name>>) THEN Fixed(t, <<>>)
    ELSE Fixed([t EXCEPT ![<<name>>].dir = "absent"], <<"remove_dir">>)

remove_empty_directory(t, name) ==
    IF ~find_submodule(t, name) THEN Failed(t, <<>>, "SubmoduleNotFound")
    ELSE LET e == is_directory_empty(t[<<name>>])
         IN  IF ~path_exists(t, <<name>>) THEN Fixed(t, <<>>)
             ELSE IF ~e.ok THEN Failed(t, <<>>, "ReadDirFailed")
             ELSE IF e.v THEN Fixed([t EXCEPT ![<<name>>].dir = "absent"], <<"remove_dir">>)
             ELSE Fixed(t, <<>>)

\* the allow-list widened: a directory with content is removed and the
\* submodule initialized, as for an empty one
fix_issue_force(t, cfg, name, issue, stash_ok) ==
    CASE issue.kind = "NotInitialized" -> init_submodule(t, name)
      [] issue.kind = "UncommittedChanges" ->
            IF cfg.auto_stash THEN stash_submodule_changes(t, name, stash_ok)
            ELSE Failed(t, <<>>, "SubmoduleUncommittedChanges")
      [] issue.kind \in {"EmptyDirectory", "DirectoryNotEmpty"} ->
            LET r == Fixed([t EXCEPT ![<<name>>].dir = "absent"], <<"remove_dir">>)
                i == init_submodule(r.tree, name)
            IN  [i EXCEPT !.ops = r.ops \o i.ops]
      [] OTHER -> Failed(t, <<>>, "SubmoduleOperationFailed")

\* no arm of its own for UncommittedChanges without auto_stash: the generic
\* failure of the last arm is returned
fix_issue_generic(t, cfg, name, issue, stash_ok) ==
    CASE issue.kind = "NotInitialized" -> init_submodule(t, name)
      [] issue.kind = "UncommittedChanges" /\ cfg.auto_stash ->
            stash_submodule_changes(t, name, stash_ok)
      [] issue.kind = "EmptyDirectory" ->
            LET r == remove_empty_directory(t, name)
                i == init_submodule(r.tree, name)
            IN  IF ~r.ok THEN r
                ELSE [i EXCEPT !.ops = r.ops \o i.ops]
      [] OTHER -> Failed(t, <<>>, "SubmoduleOperationFailed")

fix_issue(t, cfg, name, issue, stash_ok) ==
    CASE issue.kind = "NotInitialized" -> init_submodule(t, name)
      [] issue.kind = "UncommittedChanges" ->
            IF cfg.auto_stash THEN stash_submodule_changes(t, name, stash_ok)
            ELSE Failed(t, <<>>, "SubmoduleUncommittedChanges")
      [] issue.kind = "EmptyDirectory" ->
            LET r == remove_empty_directory(t, name)
                i == init_submodule(r.tree, name)
            IN  IF ~r.ok THEN r
                ELSE [i EXCEPT !.ops = r.ops \o i.ops]
      [] issue.kind = "DirectoryNotEmpty" -> Failed(t, <<>>, "SubmoduleOperationFailed")
      [] issue.kind = "InvalidUrl" -> Failed(t, <<>>, "SubmoduleOperationFailed")
      [] OTHER -> Failed(t, <<>>, "SubmoduleOperationFailed")

-----------------------------------------------------------------------------
(* Escalation controller: interactive_health_check *)

is_interactive(cfg) == cfg.interactive /\ cfg.tty

\* the names auto_fix_issues works on, in the iteration order of the report
RECURSIVE FixNodesFrom(_, _)
FixNodesFrom(h, order) ==
    IF order = <<>> THEN <<>>
    ELSE IF h.submodules[Head(order)].issues = <<>> THEN FixNodesFrom(h, Tail(order))
    ELSE <<Head(order)>> \o FixNodesFrom(h, Tail(order))

FixNodes(h) == FixNodesFrom(h, h.order)

\* First part of the handler: up to its return or up to the prompt
interactive_health_check ==
    /\ gpc = "idle"
    /\ wpc = "idle"
    /\ IF ~config.health_check
       THEN /\ gpc' = "done"
            /\ result' = "proceed"
            /\ UNCHANGED <<health, output, scans, tree_at_scan>>
       ELSE LET m == check_health(tree, <<>>)
            IN  IF ~m.ok
                THEN /\ gpc' = "done"
                     /\ result' = "error"
                     /\ scans' = scans + 1
                     /\ UNCHANGED <<health, output, tree_at_scan>>
                ELSE \E order \in Orders(DOMAIN m.v) :
                        LET h == Report(m.v, order)
                        IN  /\ health' = h
                            /\ scans' = scans + 1
                            /\ tree_at_scan' = tree
                            /\ IF is_healthy(h)
                               THEN /\ gpc' = "done"
                                    /\ result' = "proceed"
                                    /\ UNCHANGED output
                               ELSE IF ~is_interactive(config)
                               THEN /\ gpc' = "done"
                                    /\ result' = "blocked"
                                    /\ output' = output \o <<[what |-> "summary", of |-> h.submodules]>>
                               ELSE /\ gpc' = "prompt"
                                    /\ result' = result
                                    /\ output' = output \o <<[what |-> "summary", of |-> h.submodules]>>
    /\ UNCHANGED <<tree, manifest, config, cmd, cmd_result, new_health, fixlog, fix_pos, selected>>
    /\ UNCHANGED walkVars

\* the options of the prompt, by index
ContinueAnyway == 0
AutoFix == 1
ShowDetails == 2
Abort == 3

\* the arms of the match off by one: index 0 starts the auto-fix and index 1
\* continues
prompt_select_swapped(c) ==
    /\ gpc = "prompt"
    /\ selected' = Append(selected, c)
    /\ CASE c = AutoFix ->
               /\ gpc' = "done"
               /\ result' = "proceed"
               /\ UNCHANGED <<output, fix_pos>>
         [] c = ContinueAnyway ->
               /\ gpc' = "fixing"
               /\ fix_pos' = [i |-> 1, j |-> 1]
               /\ UNCHANGED <<output, result>>
         [] c = ShowDetails ->
               /\ gpc' = "done"
               /\ result' = "blocked"
               /\ output' = output \o <<[what |-> "details", of |-> health.submodules]>>
               /\ UNCHANGED fix_pos
         [] OTHER ->
               /\ gpc' = "done"
               /\ result' = "blocked"
               /\ UNCHANGED <<output, fix_pos>>
    /\ UNCHANGED <<tree, manifest, config, cmd, cmd_result, health, new_health, fixlog, scans, tree_at_scan>>
    /\ UNCHANGED walkVars

\* prompt.select() returned the index c
prompt_select(c) ==
    /\ gpc = "prompt"
    /\ selected' = Append(selected, c)
    /\ CASE c = ContinueAnyway ->
               /\ gpc' = "done"
               /\ result' = "proceed"
               /\ UNCHANGED <<output, fix_pos>>
         [] c = AutoFix ->
               /\ gpc' = "fixing"
               /\ fix_pos' = [i |-> 1, j |-> 1]
               /\ UNCHANGED <<output, result>>
         [] c = ShowDetails ->
               /\ gpc' = "done"
               /\ result' = "blocked"
               /\ output' = output \o <<[what |-> "details", of |-> health.submodules]>>
               /\ UNCHANGED fix_pos
         [] OTHER ->
               /\ gpc' = "done"
               /\ result' = "blocked"
               /\ UNCHANGED <<output, fix_pos>>
    /\ UNCHANGED <<tree, manifest, config, cmd, cmd_result, health, new_health, fixlog, scans, tree_at_scan>>
    /\ UNCHANGED walkVars

\* prompt.select() failed (input closed or interrupted)
prompt_error ==
    /\ gpc = "prompt"
    /\ gpc' = "done"
    /\ result' = "error"
    /\ UNCHANGED <<tree, manifest, config, cmd, cmd_result, health, new_health, output, fixlog, fix_pos, selected,
                   scans, tree_at_scan>>
    /\ UNCHANGED walkVars

\* an off-by-one in the loops: the first issue of the pass is handled twice
next_fix_pos_repeat(h, pos) ==
    LET nodes == FixNodes(h)
        issues == h.submodules[nodes[pos.i]].issues
    IN  IF fixlog = <<>> THEN pos
        ELSE IF pos.j < Len(issues) THEN [pos EXCEPT !.j = @ + 1]
        ELSE [i |-> pos.i + 1, j |-> 1]

\* a pass that gives up once a fix has failed
next_fix_pos_abort(h, pos) ==
    LET nodes == FixNodes(h)
        issues == h.submodules[nodes[pos.i]].issues
    IN  IF fixlog # <<>> /\ ~fixlog[Len(fixlog)].ok THEN [i |-> Len(nodes) + 1, j |-> 1]
        ELSE IF pos.j < Len(issues) THEN [pos EXCEPT !.j = @ + 1]
        ELSE [i |-> pos.i + 1, j |-> 1]

\* the loops of auto_fix_issues: the position after the one at pos; past the
\* last node when the pass is over
next_fix_pos(h, pos) ==
    LET nodes == FixNodes(h)
        issues == h.submodules[nodes[pos.i]].issues
    IN  IF pos.j < Len(issues) THEN [pos EXCEPT !.j = @ + 1]
        ELSE [i |-> pos.i + 1, j |-> 1]

\* One iteration of the inner loop of auto_fix_issues: one fix_issue call
auto_fix_issues ==
    /\ gpc = "fixing"
    /\ LET nodes == FixNodes(health)
           name == nodes[fix_pos.i]
           issues == health.submodules[name].issues
           issue == issues[fix_pos.j]
           next == next_fix_pos(health, fix_pos)
       IN  \E stash_ok \in BOOLEAN :
              LET r == fix_issue(tree, config, name, issue, stash_ok)
              IN  /\ tree' = r.tree
                  /\ fixlog' = Append(fixlog, [name |-> name, issue |-> issue, ok |-> r.ok,
                                               ops |-> r.ops, err |-> r.err])
                  /\ IF next.i <= Len(nodes)
                     THEN /\ fix_pos' = next
                          /\ gpc' = gpc
                     ELSE /\ fix_pos' = fix_pos
                          /\ gpc' = "recheck"
    /\ UNCHANGED <<manifest, config, cmd, cmd_result, health, new_health, result, output, scans, tree_at_scan,
                   selected>>
    /\ UNCHANGED walkVars

\* a controller that loops: an unhealthy re-check goes back to the prompt
recheck_again ==
    /\ gpc = "recheck"
    /\ scans' = scans + 1
    /\ LET m == check_health(tree, <<>>)
       IN  IF ~m.ok
           THEN /\ gpc' = "done"
                /\ result' = "error"
                /\ UNCHANGED <<new_health, output>>
           ELSE \E order \in Orders(DOMAIN m.v) :
                   LET h == Report(m.v, order)
                   IN  /\ new_health' = h
                       /\ IF is_healthy(h)
                          THEN /\ gpc' = "done"
                               /\ result' = "proceed"
                               /\ output' = Append(output, [what |-> "resolved", of |-> EmptyMap])
                          ELSE /\ gpc' = "prompt"
                               /\ result' = result
                               /\ output' = Append(output, [what |-> "unresolved", of |-> EmptyMap])
    /\ UNCHANGED <<tree, manifest, config, cmd, cmd_result, health, fixlog, fix_pos, selected, tree_at_scan>>
    /\ UNCHANGED walkVars

\* a re-check that builds the new report and then decides on the old one
recheck_stale ==
    /\ gpc = "recheck"
    /\ gpc' = "done"
    /\ scans' = scans + 1
    /\ LET m == check_health(tree, <<>>)
       IN  IF ~m.ok
           THEN /\ result' = "error"
                /\ UNCHANGED <<new_health, output>>
           ELSE \E order \in Orders(DOMAIN m.v) :
                   LET h == Report(m.v, order)
                   IN  /\ new_health' = h
                       /\ IF is_healthy(health)
                          THEN /\ result' = "proceed"
                               /\ output' = Append(output, [what |-> "resolved", of |-> EmptyMap])
                          ELSE /\ result' = "blocked"
                               /\ output' = Append(output, [what |-> "unresolved", of |-> EmptyMap])
    /\ UNCHANGED <<tree, manifest, config, cmd, cmd_result, health, fixlog, fix_pos, selected, tree_at_scan>>
    /\ UNCHANGED walkVars

\* The re-check after auto-fix and the return of the handler
recheck ==
    /\ gpc = "recheck"
    /\ gpc' = "done"
    /\ scans' = scans + 1
    /\ LET m == check_health(tree, <<>>)
       IN  IF ~m.ok
           THEN /\ result' = "error"
                /\ UNCHANGED <<new_health, output>>
           ELSE \E order \in Orders(DOMAIN m.v) :
                   LET h == Report(m.v, order)
                   IN  /\ new_health' = h
                       /\ IF is_healthy(h)
                          THEN /\ result' = "proceed"
                               /\ output' = Append(output, [what |-> "resolved", of |-> EmptyMap])
                          ELSE /\ result' = "blocked"
                               /\ output' = Append(output, [what |-> "unresolved", of |-> EmptyMap])
    /\ UNCHANGED <<tree, manifest, config, cmd, cmd_result, health, fixlog, fix_pos, selected, tree_at_scan>>
    /\ UNCHANGED walkVars

-----------------------------------------------------------------------------
(* Initial states of the gate: the root's submodules in any state *)

UrlChoices == {None, Some(UrlP), Some(UrlBad)}

\* repository states the initial trees draw from
InitRepositoryStates == {"Clean", "Merge", "ApplyMailbox"}

NonRepoNodes ==
    {[BaseNode EXCEPT !.dir = d, !.url = u] :
        d \in {"absent", "empty", "nonempty", "unreadable", "file"}, u \in UrlChoices}

HeadStates ==
    {[head |-> "detached", upstream |-> FALSE, ahead |-> 0, behind |-> 0],
     [head |-> "unborn", upstream |-> FALSE, ahead |-> 0, behind |-> 0],
     [head |-> "branch", upstream |-> FALSE, ahead |-> 0, behind |-> 0]}
    \cup {[head |-> "branch", upstream |-> TRUE, ahead |-> a, behind |-> b] :
            a \in 0..MaxCount, b \in 0..MaxCount}

RepoNodes ==
    {[BaseNode EXCEPT !.dir = "repo", !.url = u, !.registered = TRUE, !.changes = c,
                      !.head = hs.head, !.upstream = hs.upstream, !.ahead = hs.ahead,
                      !.behind = hs.behind, !.state = s] :
        u \in UrlChoices, c \in {"none", "tracked", "untracked"}, hs \in HeadStates,
        s \in InitRepositoryStates}
    \cup {[BaseNode EXCEPT !.dir = "corrupt", !.url = u, !.registered = TRUE] : u \in UrlChoices}

NodeStates == NonRepoNodes \cup RepoNodes

\* states of the second submodule of the root
SiblingStates ==
    {[BaseNode EXCEPT !.dir = "absent", !.url = Some(UrlQ)],
     [BaseNode EXCEPT !.dir = "empty"],
     [BaseNode EXCEPT !.dir = "nonempty", !.url = Some(UrlBad)],
     [BaseNode EXCEPT !.dir = "repo", !.url = Some(UrlQ), !.registered = TRUE],
     [BaseNode EXCEPT !.dir = "repo", !.url = Some(UrlQ), !.registered = TRUE,
                      !.changes = "tracked"],
     [BaseNode EXCEPT !.dir = "repo", !.url = Some(UrlQ), !.registered = TRUE,
                      !.head = "detached"]}

NoManifest == [u \in {UrlP, UrlQ} |-> [n \in Names |-> None]]

FlatTrees ==
    {EmptyMap}
    \cup {[p \in {<<"a">>} |-> s] : s \in NodeStates}
    \cup {[p \in {<<"a">>, <<"b">>} |-> IF p = <<"a">> THEN s ELSE s2] :
            s \in NodeStates, s2 \in SiblingStates}

Configs == [health_check : BOOLEAN, auto_stash : BOOLEAN, interactive : BOOLEAN, tty : BOOLEAN]

GateIdle ==
    /\ gpc = "idle"
    /\ health = NoHealth
    /\ new_health = NoHealth
    /\ result = "none"
    /\ output = <<>>
    /\ fixlog = <<>>
    /\ fix_pos = [i |-> 0, j |-> 0]
    /\ scans = 0
    /\ tree_at_scan = EmptyMap
    /\ selected = <<>>

WalkIdle ==
    /\ wpc = "idle"
    /\ wop = [op |-> "none", recursive |-> FALSE, init |-> FALSE]
    /\ stack = <<>>
    /\ visited = <<>>
    /\ wresult = "none"

\* the gate called on its own, by no command
NoCmd == [name |-> "none", force |-> FALSE]

Init ==
    /\ tree \in FlatTrees
    /\ manifest = NoManifest
    /\ config \in Configs
    /\ cmd = NoCmd
    /\ cmd_result = "none"
    /\ GateIdle
    /\ WalkIdle

Next ==
    \/ interactive_health_check
    \/ \E c \in {ContinueAnyway, AutoFix, ShowDetails, Abort} : prompt_select(c)
    \/ prompt_error
    \/ auto_fix_issues
    \/ recheck

Spec == Init /\ [][Next]_vars

-----------------------------------------------------------------------------
(* Recursive walkers: update_all, foreach and the nested status table.      *)
(* The recursion of the code is a stack of frames, one per repository being *)
(* iterated; a step handles the next submodule of the innermost frame.      *)

\* depth limit of add_nested_submodules_to_table
MaxTableDepth == 3

Frame(repo, todo, depth) == [repo |-> repo, todo |-> todo, depth |-> depth]

\* return from every frame whose loop is over
RECURSIVE Unwind(_)
Unwind(st) ==
    IF st = <<>> THEN st
    ELSE IF st[Len(st)].todo = <<>> THEN Unwind(SubSeq(st, 1, Len(st) - 1))
    ELSE st

\* the innermost frame moves on to its next submodule
Advance(st) == [st EXCEPT ![Len(st)].todo = Tail(@)]

\* the working tree after a clone of the submodule at path p: its content is
\* checked out on a detached HEAD and the submodules its manifest declares
\* appear as empty directories
Materialize(t, m, p) ==
    LET u == t[p].url.s
        kids == {n \in Names : m[u][n].some}
    IN  [q \in DOMAIN t \cup {Append(p, n) : n \in kids} |->
            IF q = p THEN [t[p] EXCEPT !.dir = "repo", !.registered = TRUE, !.head = "detached"]
            ELSE IF q \in DOMAIN t THEN t[q]
            ELSE [BaseNode EXCEPT !.dir = "empty", !.url = m[u][q[Len(q)]]]]

\* Submodule::init(false) on the node at path p
submodule_init(t, p) ==
    IF ~t[p].url.some THEN Err ELSE Ok([t EXCEPT ![p].registered = TRUE])

\* Submodule::update(init, None) on the node at path p; net_ok: the clone or
\* checkout succeeds
submodule_update(t, m, p, init, net_ok) ==
    IF opens(t[p])
    THEN IF net_ok /\ t[p].dir = "repo" THEN Ok([t EXCEPT ![p].head = "detached"]) ELSE Err
    ELSE IF ~t[p].registered /\ ~init THEN Err
    ELSE IF ~t[p].url.some \/ t[p].url.s \notin DOMAIN m THEN Err
    ELSE IF t[p].dir \notin {"absent", "empty"} THEN Err
    ELSE IF ~net_ok \/ Len(p) >= MaxPath THEN Err
    ELSE Ok(Materialize(t, m, p))

WalkStart(op, recursive, init) ==
    /\ wpc = "idle"
    /\ gpc = "idle"
    /\ wop' = [op |-> op, recursive |-> recursive, init |-> init]
    /\ LET st == Unwind(<<Frame(<<>>, submodules(tree, <<>>), 0)>>)
       IN  /\ stack' = st
           /\ wpc' = IF st = <<>> THEN "done" ELSE "running"
           /\ wresult' = IF st = <<>> THEN "ok" ELSE wresult
    /\ UNCHANGED <<tree, manifest, config, cmd, cmd_result, visited>>
    /\ UNCHANGED gateVars

WalkFail ==
    /\ wpc' = "done"
    /\ wresult' = "error"
    /\ stack' = <<>>

WalkOn(st) ==
    /\ stack' = Unwind(st)
    /\ wpc' = IF Unwind(st) = <<>> THEN "done" ELSE "running"
    /\ wresult' = IF Unwind(st) = <<>> THEN "ok" ELSE wresult

\* SubmoduleManager::update_all is called on the root repository
update_all(recursive, init) == WalkStart("update_all", recursive, init)

\* one iteration of the loop of update_all, in the innermost call
update_all_step ==
    /\ wpc = "running"
    /\ wop.op = "update_all"
    /\ LET top == stack[Len(stack)]
           p == Append(top.repo, Head(top.todo))
           i == IF wop.init /\ ~opens(tree[p]) THEN submodule_init(tree, p) ELSE Ok(tree)
       IN  IF ~i.ok
           THEN /\ WalkFail
                /\ UNCHANGED <<tree, visited>>
           ELSE \E net_ok \in BOOLEAN :
                   LET u == submodule_update(i.v, manifest, p, wop.init, net_ok)
                   IN  IF ~u.ok
                       THEN /\ WalkFail
                            /\ tree' = i.v
                            /\ UNCHANGED visited
                       ELSE /\ tree' = u.v
                            /\ visited' = Append(visited, [path |-> p, depth |-> Len(stack) - 1])
                            /\ IF wop.recursive /\ opens(u.v[p])
                               THEN WalkOn(Append(Advance(stack),
                                                  Frame(p, submodules(u.v, p), Len(stack))))
                               ELSE WalkOn(Advance(stack))
    /\ UNCHANGED <<manifest, config, cmd, cmd_result, wop>>
    /\ UNCHANGED gateVars

\* SubmoduleManager::foreach is called on the root repository
foreach(recursive) == WalkStart("foreach", recursive, FALSE)

\* one iteration of the loop of foreach, in the innermost call; the relative
\* path of the submodule is tested against the process working directory
foreach_step ==
    /\ wpc = "running"
    /\ wop.op = "foreach"
    /\ LET top == stack[Len(stack)]
           p == Append(top.repo, Head(top.todo))
       IN  IF path_exists(tree, <<Head(top.todo)>>)
           THEN /\ visited' = Append(visited, [path |-> p, depth |-> Len(stack) - 1])
                /\ IF wop.recursive /\ opens(tree[p])
                   THEN WalkOn(Append(Advance(stack), Frame(p, submodules(tree, p), Len(stack))))
                   ELSE WalkOn(Advance(stack))
           ELSE /\ WalkOn(Advance(stack))
                /\ UNCHANGED visited
    /\ UNCHANGED <<tree, manifest, config, cmd, cmd_result, wop>>
    /\ UNCHANGED gateVars

\* show_submodule_status_table is called on the root's submodules
show_submodule_status_table(recursive) == WalkStart("table", recursive, FALSE)

\* one row of the table: the loop body of show_submodule_status_table (depth 0)
\* or of add_nested_submodules_to_table (depth >= 1)
add_nested_submodules_to_table ==
    /\ wpc = "running"
    /\ wop.op = "table"
    /\ LET top == stack[Len(stack)]
           p == Append(top.repo, Head(top.todo))
           descend == IF top.depth = 0 THEN wop.recursive ELSE top.depth < MaxTableDepth
       IN  IF tree[p].dir = "corrupt"
           THEN /\ WalkFail
                /\ UNCHANGED visited
           ELSE /\ visited' = Append(visited, [path |-> p, depth |-> top.depth])
                /\ IF descend /\ opens(tree[p])
                   THEN WalkOn(Append(Advance(stack),
                                      Frame(p, submodules(tree, p), top.depth + 1)))
                   ELSE WalkOn(Advance(stack))
    /\ UNCHANGED <<tree, manifest, config, cmd, cmd_result, wop>>
    /\ UNCHANGED gateVars

\* the status command builds a report: check_health on the root repository
show_submodule_status ==
    /\ wpc = "idle"
    /\ gpc = "idle"
    /\ wop' = [op |-> "check_health", recursive |-> FALSE, init |-> FALSE]
    /\ wpc' = "done"
    /\ LET m == check_health(tree, <<>>)
       IN  IF ~m.ok
           THEN /\ wresult' = "error"
                /\ UNCHANGED <<health, scans, tree_at_scan>>
           ELSE \E order \in Orders(DOMAIN m.v) :
                   /\ health' = Report(m.v, order)
                   /\ scans' = scans + 1
                   /\ tree_at_scan' = tree
                   /\ wresult' = "ok"
    /\ UNCHANGED <<tree, manifest, config, cmd, cmd_result, stack, visited>>
    /\ UNCHANGED <<gpc, new_health, result, output, fixlog, fix_pos, selected>>

-----------------------------------------------------------------------------
(* Initial states of the walkers: nested trees grown from a manifest *)

WalkUrls == {UrlP, UrlQ}

Manifests == [WalkUrls -> [Names -> {None, Some(UrlP), Some(UrlQ)}]]

AllPaths == UNION {[1..l -> Names] : l \in 1..MaxPath}

\* the url the manifests declare for path p under a root cloned from UrlP
RECURSIVE DeclaredUrl(_, _)
DeclaredUrl(m, p) ==
    IF p = <<>> THEN Some(UrlP)
    ELSE LET above == DeclaredUrl(m, SubSeq(p, 1, Len(p) - 1))
         IN  IF above.some THEN m[above.s][p[Len(p)]] ELSE None

\* the tree in which every declared submodule down to level k is cloned and
\* those of level k + 1 are not initialized
TreeOf(m, k) ==
    [p \in {q \in AllPaths : Len(q) <= k + 1 /\ DeclaredUrl(m, q).some} |->
        IF Len(p) <= k
        THEN [BaseNode EXCEPT !.dir = "repo", !.url = DeclaredUrl(m, p), !.registered = TRUE]
        ELSE [BaseNode EXCEPT !.dir = "empty", !.url = DeclaredUrl(m, p)]]

DefaultConfig == [health_check |-> TRUE, auto_stash |-> FALSE, interactive |-> TRUE, tty |-> TRUE]

InitWalk ==
    /\ manifest \in Manifests
    /\ \E k \in 0..(MaxPath - 1) : tree = TreeOf(manifest, k)
    /\ config = DefaultConfig
    /\ cmd = NoCmd
    /\ cmd_result = "none"
    /\ GateIdle
    /\ WalkIdle

NextWalk ==
    \/ \E r \in BOOLEAN, i \in BOOLEAN : update_all(r, i)
    \/ update_all_step
    \/ \E r \in BOOLEAN : foreach(r)
    \/ foreach_step
    \/ \E r \in BOOLEAN : show_submodule_status_table(r)
    \/ add_nested_submodules_to_table
    \/ show_submodule_status

SpecWalk == InitWalk /\ [][NextWalk]_vars

-----------------------------------------------------------------------------
(* The gate as the commands call it: commit, quick-commit, sync --submodules *)
(* and submodule update, over submodules whose name may not be readable     *)

\* the commands that call interactive_health_check, with the force flag of
\* their arguments (commit and quick-commit have none)
Commands ==
    {[name |-> "commit", force |-> FALSE], [name |-> "quick_commit", force |-> FALSE]}
    \cup {[name |-> n, force |-> f] : n \in {"sync", "update"}, f \in BOOLEAN}

NamedStates == {[s EXCEPT !.named = b] : s \in SiblingStates, b \in BOOLEAN}

NamedTrees ==
    {EmptyMap}
    \cup {[p \in {<<"a">>} |-> s] : s \in NamedStates}
    \cup {[p \in {<<"a">>, <<"b">>} |-> IF p = <<"a">> THEN s ELSE s2] :
            s \in NamedStates, s2 \in NamedStates}

InitCmd ==
    /\ tree \in NamedTrees
    /\ manifest = NoManifest
    /\ config \in Configs
    /\ cmd \in Commands
    /\ cmd_result = "none"
    /\ GateIdle
    /\ WalkIdle

\* commit, quick-commit and submodule update test config.submodules.health_check
\* themselves before they call the gate; sync calls it in any case
TestsHealthCheck(c) == c.name \in {"commit", "quick_commit", "update"}

\* the command calls interactive_health_check
call_interactive_health_check ==
    /\ TestsHealthCheck(cmd) => config.health_check
    /\ interactive_health_check

\* the test of config.submodules.health_check fails: the gate is not called
skip_health_check ==
    /\ gpc = "idle"
    /\ TestsHealthCheck(cmd) /\ ~config.health_check
    /\ gpc' = "skipped"
    /\ UNCHANGED <<tree, manifest, config, cmd, cmd_result, health, new_health, result, output,
                   fixlog, fix_pos, scans, tree_at_scan, selected>>
    /\ UNCHANGED walkVars

\* a command that goes on whatever the gate returned
after_health_check_unchecked ==
    /\ gpc \in {"done", "skipped"}
    /\ cmd_result = "none"
    /\ IF gpc = "done" /\ result = "error"
       THEN cmd_result' = "Err"
       ELSE \E ok \in BOOLEAN : cmd_result' = IF ok THEN "performed" ELSE "OtherError"
    /\ UNCHANGED <<tree, manifest, config, cmd, gpc, health, new_health, result, output,
                   fixlog, fix_pos, scans, tree_at_scan, selected>>
    /\ UNCHANGED walkVars

\* The rest of the command.  An error of the gate is passed on by `?`; false
\* makes the command fail with SubmoduleError; otherwise the command goes on to
\* its action (create the commit, update_all, update the submodules), which it
\* performs unless a later check or the action itself fails (ok).
after_health_check ==
    /\ gpc \in {"done", "skipped"}
    /\ cmd_result = "none"
    /\ IF gpc = "done" /\ result = "error"
       THEN cmd_result' = "Err"
       ELSE IF gpc = "done" /\ result = "blocked"
       THEN cmd_result' = "SubmoduleError"
       ELSE \E ok \in BOOLEAN : cmd_result' = IF ok THEN "performed" ELSE "OtherError"
    /\ UNCHANGED <<tree, manifest, config, cmd, gpc, health, new_health, result, output,
                   fixlog, fix_pos, scans, tree_at_scan, selected>>
    /\ UNCHANGED walkVars

NextCmd ==
    \/ call_interactive_health_check
    \/ skip_health_check
    \/ \E c \in {ContinueAnyway, AutoFix, ShowDetails, Abort} : prompt_select(c)
    \/ prompt_error
    \/ auto_fix_issues
    \/ recheck
    \/ after_health_check

SpecCmd == InitCmd /\ [][NextCmd]_vars

-----------------------------------------------------------------------------
(* The gate over one submodule whose declared URL is any short string *)

\* longest URL built from UrlChars
MaxUrlLen == 3

UrlChars == {"u", "@", ":"}

UrlStrings ==
    UNION {[1..l -> UrlChars] : l \in 0..MaxUrlLen}
    \cup {UrlP, UrlBad,
          <<"h","t","t","p",":","/","/","p">>, <<"g","i","t",":","/","/","p">>,
          <<"s","s","h",":","/","/","p">>, <<"f","t","p",":","/","/","p">>,
          <<"h","t","t","p">>}

UrlTrees ==
    {[p \in {<<"a">>} |-> [BaseNode EXCEPT !.dir = d, !.registered = (d = "repo"), !.url = u]] :
        d \in {"absent", "repo"}, u \in {None} \cup {Some(s) : s \in UrlStrings}}

InitUrl ==
    /\ tree \in UrlTrees
    /\ manifest = NoManifest
    /\ config \in Configs
    /\ cmd = NoCmd
    /\ cmd_result = "none"
    /\ GateIdle
    /\ WalkIdle

SpecUrl == InitUrl /\ [][Next]_vars

-----------------------------------------------------------------------------
(* Properties *)

Last(q) == q[Len(q)]
KindsOf(issues) == {issues[j].kind : j \in 1..Len(issues)}
IssueSet(issues) == {issues[j] : j \in 1..Len(issues)}
AllStatusesClean(h) == \A k \in DOMAIN h.submodules : Len(h.submodules[k].issues) = 0

\* C1: in non-interactive mode the gate returns blocked exactly when the report
\* of the scan it just made has a status with an issue: a blocked gate has made
\* a scan whose report is not healthy, and a scan whose report is not healthy
\* ends the gate blocked.
C1_NonInteractiveBlockedIffUnhealthy ==
    (gpc = "done" /\ ~(config.interactive /\ config.tty)) =>
        /\ result = "blocked" => (health.ok /\ ~AllStatusesClean(health))
        /\ (health.ok /\ ~AllStatusesClean(health)) => result = "blocked"

C1_Witness ==
    /\ gpc = "done"
    /\ ~(config.interactive /\ config.tty)
    /\ health.ok
    /\ ~AllStatusesClean(health)
    /\ result = "blocked"

CurrentFix == health.submodules[FixNodes(health)[fix_pos.i]].issues[fix_pos.j]
CurrentNode == <<FixNodes(health)[fix_pos.i]>>

\* C3: a fix step changes the tree only for an issue of the allow-list: the
\* stash count and the changes of a submodule move only for UncommittedChanges
\* with auto_stash set, a directory is removed only for EmptyDirectory, the
\* registration changes only for NotInitialized and EmptyDirectory, and for
\* every other kind the whole tree stays as it was and no action is logged.
C3_Step ==
    gpc = "fixing" =>
        LET kind == CurrentFix.kind
            p == CurrentNode
            stashing == kind = "UncommittedChanges" /\ config.auto_stash
        IN  /\ (kind \notin {"NotInitialized", "EmptyDirectory", "UncommittedChanges"}
                    => tree' = tree /\ Last(fixlog').ops = <<>> /\ ~Last(fixlog').ok)
            /\ (kind = "UncommittedChanges" /\ ~config.auto_stash
                    => tree' = tree /\ Last(fixlog').ops = <<>> /\ ~Last(fixlog').ok)
            /\ DOMAIN tree' = DOMAIN tree
            /\ \A q \in DOMAIN tree :
                  /\ q # p => tree'[q] = tree[q]
                  /\ (tree'[q].stashes # tree[q].stashes \/ tree'[q].changes # tree[q].changes)
                        => stashing
                  /\ tree'[q].dir # tree[q].dir => kind = "EmptyDirectory"
                  /\ tree'[q].registered # tree[q].registered
                        => kind \in {"NotInitialized", "EmptyDirectory"}

C3_AllowListClosure == [][C3_Step]_vars

C3_Witness ==
    /\ \E i \in 1..Len(fixlog) : fixlog[i].issue.kind = "DirectoryNotEmpty"
    /\ \E i \in 1..Len(fixlog) : fixlog[i].ops = <<"stash">>

\* C4 as stated, for submodules whose manifest entry declares a url: after an
\* auto-fix pass, under the default policy, over a report whose only issues are
\* NotInitialized, every fix succeeded and the re-check is healthy.
C4_Original ==
    (/\ gpc = "done"
     /\ fixlog # <<>>
     /\ ~config.auto_stash
     /\ \A k \in DOMAIN health.submodules :
            /\ KindsOf(health.submodules[k].issues) \subseteq {"NotInitialized"}
            /\ health.submodules[k].url.some)
    => /\ \A i \in 1..Len(fixlog) : fixlog[i].ok
       /\ new_health.ok
       /\ AllStatusesClean(new_health)

C6_Original ==
    \A i, j \in 1..Len(fixlog) :
        fixlog[i].name = fixlog[j].name => fixlog[i].ok = fixlog[j].ok

\* C6 amended: in one auto-fix pass every issue of a node is handled at most
\* once, so it has one outcome, fixed or could not fix, never both; two
\* different issues of one node can have different outcomes.
C6_OneOutcomePerIssue ==
    \A i, j \in 1..Len(fixlog) :
        (fixlog[i].name = fixlog[j].name /\ fixlog[i].issue = fixlog[j].issue) => i = j

C6_Witness ==
    \E i, j \in 1..Len(fixlog) :
        /\ fixlog[i].name = fixlog[j].name
        /\ fixlog[i].ok
        /\ ~fixlog[j].ok

\* the url of the repository a frame iterates
FrameUrl(f) == IF f.repo = <<>> THEN Some(UrlP) ELSE tree[f.repo].url

\* a submodule whose url is the url of a repository above it
Cyclic(t) ==
    \E p \in DOMAIN t :
        /\ opens(t[p])
        /\ \/ t[p].url = Some(UrlP)
           \/ \E l \in 1..(Len(p) - 1) : t[SubSeq(p, 1, l)].url = t[p].url

\* C7 as stated: a walk is safe against cycles: it never descends into a
\* repository it is already inside of, and a scan of a tree in which a
\* submodule refers to a repository above it records a Warning.
C7_Original ==
    /\ \A i, j \in 1..Len(stack) : FrameUrl(stack[i]) = FrameUrl(stack[j]) => i = j
    /\ (wop.op = "check_health" /\ wpc = "done" /\ wresult = "ok" /\ Cyclic(tree)) =>
          \E k \in DOMAIN health.submodules :
              \E j \in 1..Len(health.submodules[k].issues) :
                  severity(health.submodules[k].issues[j]) = "Warning"

\* C8 as stated: no walk acts on a node deeper than the maximum depth, the
\* root's own submodules being at depth 0.
C8_Original ==
    \A i \in 1..Len(visited) : visited[i].depth <= MaxTableDepth

\* C9 as stated: the report of a scan has a status for every submodule of the
\* tree within the depth bound, nested ones included.
C9_Original ==
    (wop.op = "check_health" /\ wpc = "done" /\ wresult = "ok") =>
        \A p \in DOMAIN tree :
            Len(p) <= MaxTableDepth =>
                \E k \in DOMAIN health.submodules : health.submodules[k].path = p

\* C10 as stated: after the detailed status is displayed the controller is
\* back at the prompt, and no result has been returned.
C10_Original ==
    (output # <<>> /\ Last(output).what = "details") => (gpc = "prompt" /\ result = "none")


\* the number of issues a report lists, over all its statuses
IssueCount(h) ==
    Cardinality(UNION {{<<k, j>> : j \in 1..Len(h.submodules[k].issues)} :
                          k \in DOMAIN h.submodules})

\* how far the controller is from its return
Phase(pc) ==
    CASE pc = "idle" -> 4
      [] pc = "prompt" -> 3
      [] pc = "fixing" -> 2
      [] pc = "recheck" -> 1
      [] pc = "done" -> 0

C11_Step ==
    \* at most two scans and at most one pass over the issues of the report
    /\ scans' <= 2
    /\ Len(fixlog') <= IssueCount(health')
    /\ fixlog' # <<>> => selected' = <<AutoFix>>
    \* AutoFix: the whole pass, then one scan, then the return
    /\ (selected' = <<AutoFix>> /\ gpc' = "done") =>
          /\ Len(fixlog') = IssueCount(health')
          /\ scans' = 2
    /\ scans' = 2 =>
          /\ selected' = <<AutoFix>>
          /\ fixlog' = fixlog
          /\ Len(fixlog) = IssueCount(health)
    \* the result follows the second scan
    /\ (gpc' = "done" /\ scans' = 2 /\ new_health'.ok) =>
          (result' = "proceed" <=> AllStatusesClean(new_health'))
    \* every step brings the return closer, and a pass that is not over has an
    \* issue to go on with
    /\ \/ Phase(gpc') < Phase(gpc)
       \/ gpc = "fixing" /\ gpc' = "fixing" /\ Len(fixlog') = Len(fixlog) + 1
    /\ gpc' = "fixing" =>
          /\ fix_pos'.i \in 1..Len(FixNodes(health'))
          /\ fix_pos'.j \in 1..Len(health'.submodules[FixNodes(health')[fix_pos'.i]].issues)

\* C11: choosing AutoFix runs one pass of auto-fix over the issues of the
\* report and then one new scan, and the gate proceeds exactly when that
\* second scan is healthy; one call of the gate makes at most one pass and at
\* most two scans; every step of the gate brings its return closer and a pass
\* under way always has a next issue to attempt, so the gate terminates.
C11_OnePassTwoScans == [][C11_Step]_vars

\* AutoFix was chosen, the pass repaired what it was given and the second scan
\* was healthy
C11_Witness ==
    /\ gpc = "done"
    /\ selected = <<AutoFix>>
    /\ scans = 2
    /\ fixlog # <<>>
    /\ result = "proceed"

\* C12: at the prompt, which is shown in interactive mode when the scan found
\* issues, "Continue anyway" makes the gate return proceed and "Abort" makes it
\* return blocked; after either choice no fix has been attempted, no second scan
\* has been made and every submodule is as the scan found it.
C12_ContinueAndAbortFrame ==
    \A c \in {ContinueAnyway, Abort} :
        (selected # <<>> /\ Last(selected) = c) =>
            /\ gpc = "done"
            /\ result = (IF c = ContinueAnyway THEN "proceed" ELSE "blocked")
            /\ fixlog = <<>>
            /\ scans = 1
            /\ new_health = NoHealth
            /\ tree = tree_at_scan
            /\ ~AllStatusesClean(health)
            /\ config.interactive /\ config.tty

\* the user continued in spite of the issues the summary showed
C12_Witness ==
    /\ selected = <<ContinueAnyway>>
    /\ result = "proceed"
    /\ output # <<>>
    /\ \E k \in DOMAIN health.submodules : health.submodules[k].issues # <<>>

\* C13 as stated: in non-interactive mode, when the scan found issues and the
\* command was given its force flag, the gate returns proceed and the issues
\* have been displayed.
C13_Original ==
    (gpc = "done" /\ ~(config.interactive /\ config.tty) /\ cmd.force
       /\ health.ok /\ ~AllStatusesClean(health)) =>
        /\ result = "proceed"
        /\ \E i \in 1..Len(output) : output[i].of = health.submodules

\* C14 as stated: when the gate returns blocked, the report the decision was
\* taken on (that of the re-scan when auto-fix ran, that of the first scan
\* otherwise) has been displayed with its issues.
C14_Original ==
    (gpc = "done" /\ result = "blocked") =>
        LET decided == IF new_health.ok THEN new_health ELSE health
        IN  \E i \in 1..Len(output) :
                /\ output[i].what \in {"summary", "details"}
                /\ output[i].of = decided.submodules

\* C15 as stated: a scan never fails because one submodule could not be
\* classified; its report has a status for every submodule of the root.
C15_Original ==
    (gpc = "done" /\ scans >= 1) =>
        /\ health.ok
        /\ \A p \in DOMAIN tree :
              \E k \in DOMAIN health.submodules : health.submodules[k].path = p

\* the severity table, by kind
WarningKinds == {"NotInitialized", "UncommittedChanges", "BehindRemote", "EmptyDirectory"}
InfoKinds == {"DetachedHead", "AheadOfRemote"}
ErrorKinds == {"MergeConflicts", "DirectoryNotEmpty", "InvalidUrl"}

\* the issues the reports of the gate list
ReportedIssues ==
    UNION {UNION {IssueSet(h.submodules[k].issues) : k \in DOMAIN h.submodules} :
              h \in {health, new_health}}

\* C16: the severity of every issue a scan reports is the one the table gives
\* for its kind (Warning for NotInitialized, UncommittedChanges, BehindRemote,
\* EmptyDirectory; Info for DetachedHead, AheadOfRemote; Error for
\* MergeConflicts, DirectoryNotEmpty, InvalidUrl), and it stays the same when
\* the count or the URL the issue carries is replaced by another.
C16_SeverityByKind ==
    \A issue \in ReportedIssues :
        /\ issue.kind \in WarningKinds \cup InfoKinds \cup ErrorKinds
        /\ issue.kind \in WarningKinds <=> severity(issue) = "Warning"
        /\ issue.kind \in InfoKinds <=> severity(issue) = "Info"
        /\ issue.kind \in ErrorKinds <=> severity(issue) = "Error"
        /\ \A n \in 0..(MaxCount + 1), u \in {<<>>, UrlP, UrlBad} :
              severity([issue EXCEPT !.n = n, !.url = u]) = severity(issue)

\* a report with counted issues and a URL issue: ahead and behind of the
\* remote, with a URL that is not valid
C16_Witness ==
    \E k \in DOMAIN health.submodules :
        /\ {"AheadOfRemote", "BehindRemote", "InvalidUrl"} \subseteq KindsOf(health.submodules[k].issues)
        /\ \E i \in IssueSet(health.submodules[k].issues) : i.kind = "AheadOfRemote" /\ i.n >= 1

\* C17 as stated: when every issue the scan found is of an Info kind
\* (DetachedHead, AheadOfRemote), the gate does not return blocked, whatever
\* the mode.
C17_Original ==
    (gpc = "done" /\ health.ok
       /\ \A k \in DOMAIN health.submodules :
             KindsOf(health.submodules[k].issues) \subseteq InfoKinds) =>
        result # "blocked"

\* C18: for a root without submodules the scan returns a report with no
\* status, which is healthy and has a total of 0 issues, it displays nothing,
\* and the gate returns proceed.
C18_EmptyTree ==
    (DOMAIN tree = {} /\ gpc = "done") =>
        /\ result = "proceed"
        /\ config.health_check =>
              /\ scans = 1
              /\ health.ok
              /\ DOMAIN health.submodules = {}
              /\ is_healthy(health)
              /\ total_issues(health) = 0
              /\ output = <<>>

\* the gate has scanned a root without submodules
C18_Witness ==
    /\ DOMAIN tree = {}
    /\ config.health_check
    /\ scans = 1
    /\ health.ok
    /\ result = "proceed"

\* C19: for every report the gate holds, is_healthy is true exactly when every
\* status has no issue, total_issues is the sum of the numbers of issues of the
\* statuses, unhealthy_submodules is the set of the keys whose status has an
\* issue, and so is_healthy, total_issues = 0 and unhealthy_submodules = {}
\* are equivalent.
C19_ReportAccessors ==
    \A h \in {health, new_health} :
        /\ is_healthy(h) <=> AllStatusesClean(h)
        /\ total_issues(h) = IssueCount(h)
        /\ unhealthy_submodules(h) = {k \in DOMAIN h.submodules : Len(h.submodules[k].issues) >= 1}
        /\ is_healthy(h) <=> total_issues(h) = 0
        /\ is_healthy(h) <=> unhealthy_submodules(h) = {}

\* a report of two statuses, one without issues and one with several
C19_Witness ==
    /\ health.ok
    /\ \E k1, k2 \in DOMAIN health.submodules :
          /\ Len(health.submodules[k1].issues) = 0
          /\ Len(health.submodules[k2].issues) >= 2

\* C20 as stated: the report of a scan has one entry for each submodule of the
\* root, also when the name of a submodule cannot be read: as many keys as
\* submodules, and a status for the path of each.
C20_Original ==
    (gpc = "done" /\ scans >= 1 /\ health.ok) =>
        /\ Cardinality(DOMAIN health.submodules) = Cardinality(DOMAIN tree)
        /\ \A p \in DOMAIN tree :
              \E k \in DOMAIN health.submodules : health.submodules[k].path = p

\* the place of a name in the ascending order of the root's submodule paths
PathIndex(n) == CHOOSE i \in 1..Len(NameOrder) : NameOrder[i] = n

\* C21 as stated: the nodes of a report are iterated in ascending order of
\* path, in the display and in auto-fix: the order of every report the gate
\* builds is sorted, and auto-fix attempts the nodes in that order.
C21_Original ==
    /\ \A h \in {health, new_health} :
          \A i, j \in 1..Len(h.order) :
              i < j => PathIndex(h.order[i]) < PathIndex(h.order[j])
    /\ \A i, j \in 1..Len(fixlog) :
          i < j => PathIndex(fixlog[i].name) <= PathIndex(fixlog[j].name)

C22_Step ==
    \* the pass, and every step after the first scan, leaves the report alone
    /\ gpc = "fixing" => health' = health
    /\ health.ok => health' = health
    \* the return after the pass: a report of the tree as the pass left it,
    \* and the result that report gives
    /\ (gpc = "recheck" /\ new_health'.ok) =>
          /\ DOMAIN new_health'.submodules = {Last(p) : p \in DOMAIN tree}
          /\ \A p \in DOMAIN tree :
                new_health'.submodules[Last(p)] = check_submodule_status(tree, p).v
          /\ result' = "proceed" <=> AllStatusesClean(new_health')
          /\ result' = "blocked" <=> ~AllStatusesClean(new_health')

\* C22: an auto-fix pass does not change the report it works from, and the
\* result returned after the pass is the one given by a report that a new scan
\* builds from the tree as the pass left it, not by the report from before.
C22_FreshReportDecides == [][C22_Step]_vars

\* the pass repaired the tree: the new report differs from the old one, which
\* still lists the issues, and the gate proceeds on the new one
C22_Witness ==
    /\ gpc = "done"
    /\ new_health.ok
    /\ AllStatusesClean(new_health)
    /\ ~AllStatusesClean(health)
    /\ tree # tree_at_scan
    /\ result = "proceed"

C23_Step ==
    (Len(fixlog') = Len(fixlog) + 1 /\ Last(fixlog').issue.kind = "UncommittedChanges"
       /\ ~config.auto_stash) =>
        /\ ~Last(fixlog').ok
        /\ Last(fixlog').err = "SubmoduleUncommittedChanges"
        /\ Last(fixlog').ops = <<>>
        /\ Last(fixlog').name \in DOMAIN health.submodules
        /\ tree' = tree

\* C23: with auto_stash off, the fix of an UncommittedChanges issue makes no
\* stash and changes nothing in the tree, and its outcome is the failure
\* SubmoduleUncommittedChanges, recorded for the submodule it was attempted on.
C23_NoStashWithoutAutoStash == [][C23_Step]_vars

\* a pass that met uncommitted changes with auto_stash off
C23_Witness ==
    /\ ~config.auto_stash
    /\ \E i \in 1..Len(fixlog) :
          /\ fixlog[i].issue.kind = "UncommittedChanges"
          /\ fixlog[i].err = "SubmoduleUncommittedChanges"
          /\ tree[<<fixlog[i].name>>].changes # "none"
          /\ tree[<<fixlog[i].name>>].stashes = 0

\* the issues of a report, node by node in the given order, each with the key
\* of its node
RECURSIVE Attempts(_, _)
Attempts(h, order) ==
    IF order = <<>> THEN <<>>
    ELSE [j \in 1..Len(h.submodules[Head(order)].issues) |->
             [name |-> Head(order), issue |-> h.submodules[Head(order)].issues[j]]]
         \o Attempts(h, Tail(order))

\* what the pass has attempted so far
Attempted == [i \in 1..Len(fixlog) |-> [name |-> fixlog[i].name, issue |-> fixlog[i].issue]]

\* C24: when an auto-fix pass is over, its attempts are the issues of the
\* report, each once, node after node, whatever failed on the way; while it
\* runs they are the first of them; and every attempt has its outcome, fixed or
\* not fixed with the reason.
C24_EveryIssueAttempted ==
    /\ (selected = <<AutoFix>> /\ gpc \in {"recheck", "done"}) =>
          Attempted = Attempts(health, health.order)
    /\ gpc = "fixing" =>
          /\ Len(fixlog) < Len(Attempts(health, health.order))
          /\ Attempted = SubSeq(Attempts(health, health.order), 1, Len(fixlog))
    /\ \A i \in 1..Len(fixlog) : fixlog[i].ok <=> fixlog[i].err = "none"

\* a pass that went on after a failure: a fix failed on one node and a later
\* fix on another node succeeded
C24_Witness ==
    /\ gpc = "done"
    /\ \E i, j \in 1..Len(fixlog) :
          /\ i < j
          /\ ~fixlog[i].ok
          /\ fixlog[j].ok
          /\ fixlog[i].name # fixlog[j].name

\* C25: in commit, quick-commit, sync --submodules and submodule update, a gate
\* that returned blocked makes the command fail with SubmoduleError, and the
\* action of the command is not performed; the action is performed only when
\* the gate returned proceed, or when health_check is off and the command, for
\* that reason, did not call the gate.
C25_BlockedStopsWorkflow ==
    /\ (result = "blocked" /\ cmd_result # "none") => cmd_result = "SubmoduleError"
    /\ cmd_result = "SubmoduleError" => (gpc = "done" /\ result = "blocked")
    /\ cmd_result = "performed" =>
          \/ gpc = "done" /\ result = "proceed"
          \/ gpc = "skipped" /\ ~config.health_check

\* a command stopped by the gate
C25_Witness ==
    /\ cmd.name \in {"commit", "quick_commit", "sync", "update"}
    /\ result = "blocked"
    /\ cmd_result = "SubmoduleError"

\* the statuses of the first report, each with the node it was built from
ScannedStatuses ==
    {[st |-> health.submodules[k], node |-> tree_at_scan[health.submodules[k].path]] :
        k \in DOMAIN health.submodules}

\* C26: in the status of an initialized submodule, AheadOfRemote(n) is listed
\* exactly when the branch has an upstream and is n > 0 commits ahead of it,
\* and BehindRemote(m) exactly when it has an upstream and is m > 0 commits
\* behind; one does not depend on the other; without upstream neither is
\* listed; MissingRemote is never listed.
C26_AheadBehind ==
    \A s \in ScannedStatuses :
        s.st.initialized =>
            /\ \A n \in 0..(MaxCount + 1) :
                  /\ [kind |-> "AheadOfRemote", n |-> n, url |-> <<>>] \in IssueSet(s.st.issues)
                        <=> (s.node.upstream /\ s.node.ahead = n /\ n > 0)
                  /\ [kind |-> "BehindRemote", n |-> n, url |-> <<>>] \in IssueSet(s.st.issues)
                        <=> (s.node.upstream /\ s.node.behind = n /\ n > 0)
            /\ ~s.node.upstream =>
                  KindsOf(s.st.issues) \cap {"AheadOfRemote", "BehindRemote"} = {}
            /\ "MissingRemote" \notin KindsOf(s.st.issues)

\* a submodule that is both ahead of and behind its upstream, and one without
\* upstream
C26_Witness ==
    /\ \E s \in ScannedStatuses :
          /\ s.st.initialized
          /\ s.node.upstream /\ s.node.ahead > 0 /\ s.node.behind > 0
          /\ {"AheadOfRemote", "BehindRemote"} \subseteq KindsOf(s.st.issues)
    /\ \E s \in ScannedStatuses : s.st.initialized /\ ~s.node.upstream

\* C27: in the status of a submodule whose repository does not open and whose
\* path is a directory, EmptyDirectory is listed exactly when the directory has
\* no entry and DirectoryNotEmpty exactly when it has one; no status lists
\* both; and neither is listed when the path does not exist or the repository
\* opens.
C27_DirectoryIssues ==
    \A s \in ScannedStatuses :
        LET kinds == KindsOf(s.st.issues)
        IN  /\ (~s.st.initialized /\ s.node.dir \in {"empty", "nonempty"}) =>
                  /\ "EmptyDirectory" \in kinds <=> s.node.dir = "empty"
                  /\ "DirectoryNotEmpty" \in kinds <=> s.node.dir = "nonempty"
            /\ ~({"EmptyDirectory", "DirectoryNotEmpty"} \subseteq kinds)
            /\ (s.node.dir = "absent" \/ s.node.dir \in {"repo", "corrupt"}) =>
                  kinds \cap {"EmptyDirectory", "DirectoryNotEmpty"} = {}

\* one scan that met an empty directory and a directory with content
C27_Witness ==
    /\ \E s \in ScannedStatuses :
          s.node.dir = "empty" /\ "EmptyDirectory" \in KindsOf(s.st.issues)
    /\ \E s \in ScannedStatuses :
          s.node.dir = "nonempty" /\ "DirectoryNotEmpty" \in KindsOf(s.st.issues)

\* the url starts with one of the recognized schemes
HasScheme(url) ==
    \E scheme \in {<<"h","t","t","p">>, <<"h","t","t","p","s">>, <<"g","i","t">>,
                   <<"s","s","h">>} :
        /\ Len(url) >= Len(scheme) + 3
        /\ \A i \in 1..Len(scheme) : url[i] = scheme[i]
        /\ url[Len(scheme) + 1] = ":" /\ url[Len(scheme) + 2] = "/" /\ url[Len(scheme) + 3] = "/"

\* the form user@host:path: an '@' with a ':' somewhere after it
UserHostPath(url) == \E i, j \in 1..Len(url) : i < j /\ url[i] = "@" /\ url[j] = ":"

\* C28 as stated: InvalidUrl is listed for a submodule exactly when it declares
\* a URL that has neither a recognized scheme nor the form user@host:path; a
\* submodule without URL never gets it.
C28_Original ==
    \A s \in ScannedStatuses :
        "InvalidUrl" \in KindsOf(s.st.issues)
            <=> (s.node.url.some /\ ~HasScheme(s.node.url.s) /\ ~UserHostPath(s.node.url.s))

\* the statuses of the reports the gate holds
AllStatuses ==
    UNION {{h.submodules[k] : k \in DOMAIN h.submodules} : h \in {health, new_health}}

\* C29: in every status of a report, initialized is false exactly when
\* NotInitialized is among the issues; EmptyDirectory and DirectoryNotEmpty are
\* listed only with initialized false; UncommittedChanges, DetachedHead,
\* AheadOfRemote, BehindRemote and MergeConflicts only with initialized true;
\* and no kind is listed twice.
C29_FlagAgreesWithIssues ==
    \A st \in AllStatuses :
        LET kinds == KindsOf(st.issues)
        IN  /\ ~st.initialized <=> "NotInitialized" \in kinds
            /\ kinds \cap {"EmptyDirectory", "DirectoryNotEmpty"} # {} => ~st.initialized
            /\ kinds \cap {"UncommittedChanges", "DetachedHead", "AheadOfRemote",
                           "BehindRemote", "MergeConflicts"} # {} => st.initialized
            /\ \A i, j \in 1..Len(st.issues) : st.issues[i].kind = st.issues[j].kind => i = j

\* a report with a submodule that is not initialized, in a directory with
\* content, and an initialized one with several issues
C29_Witness ==
    /\ \E st \in AllStatuses :
          ~st.initialized /\ {"NotInitialized", "DirectoryNotEmpty"} \subseteq KindsOf(st.issues)
    /\ \E st \in AllStatuses : st.initialized /\ Len(st.issues) >= 3

C30_Step ==
    \* what a step of the gate removes was an empty directory
    /\ \A p \in DOMAIN tree :
          tree'[p].dir # tree[p].dir => (tree[p].dir = "empty" /\ tree'[p].dir = "absent")
    \* remove_empty_directory, on any submodule of the tree as it is now
    /\ \A p \in DOMAIN tree :
          LET r == remove_empty_directory(tree, Last(p))
          IN  /\ \A q \in DOMAIN tree : q # p => r.tree[q] = tree[q]
              /\ r.tree[p].dir # tree[p].dir =>
                    (tree[p].dir = "empty" /\ r.tree[p].dir = "absent")
              /\ tree[p].dir = "empty" => r.tree[p].dir = "absent"
    \* the fix of DirectoryNotEmpty
    /\ (Len(fixlog') = Len(fixlog) + 1 /\ Last(fixlog').issue.kind = "DirectoryNotEmpty") =>
          /\ ~Last(fixlog').ok
          /\ Last(fixlog').ops = <<>>
          /\ tree' = tree

\* C30: auto-fix never deletes a directory that has content: the only change a
\* fix makes to a path is to remove it when it is an empty directory at that
\* moment, remove_empty_directory leaves every other path as it is, and the fix
\* of a DirectoryNotEmpty issue fails and leaves the tree untouched.
C30_NeverDeletesContent == [][C30_Step]_vars

\* one pass removed an empty directory and refused a directory with content
C30_Witness ==
    /\ \E i \in 1..Len(fixlog) :
          /\ fixlog[i].issue.kind = "EmptyDirectory"
          /\ fixlog[i].ops # <<>> /\ fixlog[i].ops[1] = "remove_dir"
          /\ tree[<<fixlog[i].name>>].dir = "absent"
    /\ \E j \in 1..Len(fixlog) :
          /\ fixlog[j].issue.kind = "DirectoryNotEmpty"
          /\ ~fixlog[j].ok
          /\ tree[<<fixlog[j].name>>].dir \in {"nonempty", "file"}

====
